---- MODULE Spec2Model ----
(***************************************************************************)
(* A model of godot-core's NodePath wrapper (builtin/string/node_path.rs)  *)
(* and of the dynamic call protocol exercised by the integration tests     *)
(* (itest/rust/src/object_tests/dynamic_call_test.rs).                     *)
(*                                                                         *)
(* The engine side of every call (InnerNodePath, the string constructors,  *)
(* the dispatcher behind Object::call) is not part of these sources; it is *)
(* modelled from the specification and from the texts the tests assert.    *)
(***************************************************************************)
EXTENDS Integers, Sequences, FiniteSets, TLC

VARIABLES
    overflowChecks, \* the Rust build profile: TRUE when `+` traps on overflow
    engineFault,    \* TRUE when the engine breaks its contract on counts
    path,           \* the NodePath under test (the engine's parsed data)
    last,           \* the last operation on `path`, its inputs and outcome
    srcText,        \* the host text `path` was constructed from, if any
    engineChecks,   \* TRUE when the engine validates calls to its own methods
                    \* (a debug engine, API 4.2 or later)
    wrappers,       \* the host's NodePath variables: the opaque value each holds
    engine          \* the engine's record of every opaque value it was handed

vars ==
    <<overflowChecks, engineFault, path, last, srcText, engineChecks, wrappers,
      engine>>

\* ------------------------------------------------------------------------
\* Bounds of the model

\* longest name list of a path under test
MaxNames == 3
\* longest subname list of a path under test
MaxSubnames == 1
\* largest small index tried
MaxIdx == 4
\* largest small range value tried
MaxRangeVal == 3
\* longest host text a path is constructed from
MaxTextLen == 3
\* longest argument list of a dynamic call
MaxArgs == 2
\* the host's NodePath variables
MaxWrappers == 2
\* the opaque values constructed in one run
MaxOpaque == 3

\* ------------------------------------------------------------------------
\* i64 at its full width.  TLC's integers are 32 bits wide, so an i64 is
\* kept as three limbs <<a, b, c>> standing for a * Limb^2 + b * Limb + c,
\* with 0 <= b, c < Limb = 2^22 and -2^19 <= a < 2^19 (22 + 22 + 20 bits).

Limb == 2^22

TopMax == 2^19 - 1

TopMin == -(2^19)

I64_MAX == <<TopMax, Limb - 1, Limb - 1>>

I64_MIN == <<TopMin, 0, 0>>

\* i32::MAX, the engine's default `end`
I32_MAX == 2147483647

\* u32::MAX = 2^32 - 1, already widened to i64
U32_MAX == <<0, 2^10 - 1, Limb - 1>>

\* the i64 of a value n that TLC can hold (-2^31 <= n < 2^31)
I64Of(n) ==
    IF n >= 0
    THEN <<0, n \div Limb, n % Limb>>
    ELSE <<-1, Limb - 1 - ((-(n + 1)) \div Limb), Limb - 1 - ((-(n + 1)) % Limb)>>

\* x < y on i64
I64Lt(x, y) ==
    \/ x[1] < y[1]
    \/ x[1] = y[1] /\ x[2] < y[2]
    \/ x[1] = y[1] /\ x[2] = y[2] /\ x[3] < y[3]

\* x >= y on i64
I64Ge(x, y) == ~I64Lt(x, y)

\* x + 1 on i64: the wrapped sum, and whether the addition overflowed
I64Add1(x) ==
    IF x[3] + 1 < Limb THEN [ovf |-> FALSE, val |-> <<x[1], x[2], x[3] + 1>>]
    ELSE IF x[2] + 1 < Limb THEN [ovf |-> FALSE, val |-> <<x[1], x[2] + 1, 0>>]
    ELSE IF x[1] + 1 <= TopMax THEN [ovf |-> FALSE, val |-> <<x[1] + 1, 0, 0>>]
    ELSE [ovf |-> TRUE, val |-> I64_MIN]

\* an i64 known to lie in lo..hi (small), as a TLC integer; clamped otherwise
I64Clamp(x, lo, hi) ==
    IF I64Lt(x, I64Of(lo)) THEN lo
    ELSE IF I64Lt(I64Of(hi), x) THEN hi
    ELSE IF x[1] = 0 THEN x[2] * Limb + x[3]
    ELSE (x[2] - Limb) * Limb + x[3]

\* ------------------------------------------------------------------------
\* Values

\* the name components used by the paths under test
Comp == {"a", "b"}

SeqUpTo(S, n) == UNION {[1..k -> S] : k \in 0..n}

\* the engine's parsed path: name components, then subname components
Paths ==
    [absolute : BOOLEAN, names : SeqUpTo(Comp, MaxNames),
     subnames : SeqUpTo(Comp, MaxSubnames)]

EmptyPath == [absolute |-> FALSE, names |-> <<>>, subnames |-> <<>>]

None == [tag |-> "None"]

Some(v) == [tag |-> "Some", val |-> v]

Ok(v) == [tag |-> "Ok", val |-> v]

Panic(msg) == [tag |-> "Panic", msg |-> msg]

\* ------------------------------------------------------------------------
\* Opaque values: what the engine is handed, and what it does with it

Slots == 1..MaxWrappers

OpaqueIds == 1..MaxOpaque

\* no host variable holds a value
NoWrappers == [w \in Slots |-> 0]

\* memory the engine has not been handed
Unallocated ==
    [state |-> "unallocated", ctor |-> "none", destroys |-> 0,
     misused |-> FALSE, srcLive |-> TRUE]

NoOpaque == [id \in OpaqueIds |-> Unallocated]

\* an engine function reads the value: a misuse unless the value is live
EngineRead(e, id) ==
    [e EXCEPT ![id].misused = @ \/ e[id].state # "live"]

\* an engine constructor writes the value into uninitialized memory
EngineConstruct(e, id, ctor) ==
    [e EXCEPT ![id].state = "live", ![id].ctor = ctor,
              ![id].misused = @ \/ e[id].state # "uninit"]

\* the engine's copy constructor: reads src, writes dst
EngineCopy(e, dst, src) ==
    [EngineConstruct(EngineRead(e, src), dst, "copy")
        EXCEPT ![dst].srcLive = e[src].state = "live"]

\* the engine's destructor
EngineDestroy(e, id) ==
    [EngineRead(e, id) EXCEPT ![id].state = "destroyed", ![id].destroys = @ + 1]

\* ------------------------------------------------------------------------
\* The engine behind as_inner(): InnerNodePath

\* the count the engine reports; a negative one when it breaks its contract
InnerGetNameCount(p, fault) ==
    IF fault THEN I64Of(-1) ELSE I64Of(Len(p.names))

InnerGetSubnameCount(p, fault) ==
    IF fault THEN I64Of(-1) ELSE I64Of(Len(p.subnames))

\* the component at idx; the engine's empty name when idx is out of range
InnerGetName(p, idx) ==
    LET i == I64Clamp(idx, -1, Len(p.names))
    IN  IF i >= 0 /\ i < Len(p.names) THEN p.names[i + 1] ELSE ""

InnerGetSubname(p, idx) ==
    LET i == I64Clamp(idx, -1, Len(p.subnames))
    IN  IF i >= 0 /\ i < Len(p.subnames) THEN p.subnames[i + 1] ELSE ""

\* elements b+1 .. e of s (the half-open range [b, e) counted from 0)
Part(s, b, e) ==
    IF e <= b THEN <<>> ELSE [i \in 1..(e - b) |-> s[b + i]]

Max2(a, b) == IF a >= b THEN a ELSE b

Min2(a, b) == IF a <= b THEN a ELSE b

\* The engine's slice over names followed by subnames: begin and end are
\* clamped to the total count, a negative one counts from the end, and the
\* range is half-open (end is one past the last component kept).
InnerSlice(p, begin, end) ==
    LET nc == Len(p.names)
        total == nc + Len(p.subnames)
        b0 == I64Clamp(begin, -total, total)
        e0 == I64Clamp(end, -total, total)
        b == IF b0 < 0 THEN b0 + total ELSE b0
        e == IF e0 < 0 THEN e0 + total ELSE e0
    IN  [absolute |-> p.absolute /\ b = 0,
         names |-> Part(p.names, Min2(b, nc), Min2(e, nc)),
         subnames |-> Part(p.subnames, Max2(b - nc, 0), Max2(e - nc, 0))]

\* ------------------------------------------------------------------------
\* NodePath's accessors

\* i64 -> u32 by try_into().expect(msg)
ExpectU32(x, msg) ==
    IF I64Lt(x, I64Of(0)) \/ I64Lt(U32_MAX, x) THEN Panic(msg) ELSE Ok(x)

get_name_count(p, fault) ==
    ExpectU32(InnerGetNameCount(p, fault), "Godot name counts are non negative int")

\* get_name with `idx > count` for `idx >= count`
get_name_off_by_one(p, idx, fault) ==
    IF I64Lt(InnerGetNameCount(p, fault), idx) THEN None
    ELSE Some(InnerGetName(p, idx))

get_name(p, idx, fault) ==
    IF I64Ge(idx, InnerGetNameCount(p, fault)) THEN None
    ELSE Some(InnerGetName(p, idx))

get_subname_count(p, fault) ==
    ExpectU32(InnerGetSubnameCount(p, fault), "Godot subname counts are non negative int")

get_subname(p, idx, fault) ==
    IF I64Ge(idx, InnerGetSubnameCount(p, fault)) THEN None
    ELSE Some(InnerGetSubname(p, idx))

\* ------------------------------------------------------------------------
\* NodePath::slice

Included(v) == [kind |-> "Included", val |-> v]

Excluded(v) == [kind |-> "Excluded", val |-> v]

Unbounded == [kind |-> "Unbounded"]

\* the match on range.start_bound()
SliceBegin(start) ==
    CASE start.kind = "Excluded" ->
            IF start.val = I64Of(-1)
            THEN [ovf |-> FALSE, val |-> I64Of(I32_MAX)]
            ELSE I64Add1(start.val)
      [] start.kind = "Included" -> [ovf |-> FALSE, val |-> start.val]
      [] start.kind = "Unbounded" -> [ovf |-> FALSE, val |-> I64Of(0)]

\* the end bound without the special case for an included -1
SliceEnd_no_sentinel(end) ==
    CASE end.kind = "Excluded" -> [ovf |-> FALSE, val |-> end.val]
      [] end.kind = "Included" -> I64Add1(end.val)
      [] end.kind = "Unbounded" -> [ovf |-> FALSE, val |-> I64Of(I32_MAX)]

\* the match on range.end_bound()
SliceEnd(end) ==
    CASE end.kind = "Excluded" -> [ovf |-> FALSE, val |-> end.val]
      [] end.kind = "Included" ->
            IF end.val = I64Of(-1)
            THEN [ovf |-> FALSE, val |-> I64Of(I32_MAX)]
            ELSE I64Add1(end.val)
      [] end.kind = "Unbounded" -> [ovf |-> FALSE, val |-> I64Of(I32_MAX)]

\* slice: both arguments are evaluated, then the engine is called.  An
\* overflowing `+ 1` traps when the build checks overflow and wraps when it
\* does not.
slice(p, range, checks) ==
    LET b == SliceBegin(range.start)
        e == SliceEnd(range.end)
    IN  IF checks /\ (b.ovf \/ e.ovf)
        THEN Panic("attempt to add with overflow")
        ELSE [tag |-> "Ok", begin |-> b.val, end |-> e.val,
              val |-> InnerSlice(p, b.val, e.val)]

\* ------------------------------------------------------------------------
\* The inputs tried

\* u32 indices, as widened by `idx as i64`
Indices == {I64Of(i) : i \in 0..MaxIdx} \cup {U32_MAX}

\* i64 range values: the small ones, the sentinel and the largest
RangeVals ==
    {I64Of(i) : i \in (-2)..MaxRangeVal} \cup {I64Of(I32_MAX), I64_MAX}

Bounds == {Unbounded} \cup {Included(v) : v \in RangeVals}
              \cup {Excluded(v) : v \in RangeVals}

Ranges == [start : Bounds, end : Bounds]

NoOp == [op |-> "none"]

\* ------------------------------------------------------------------------
\* The operations on a path.  Every call is synchronous: it runs to its
\* outcome, which the caller takes before it makes its next call.

PathInit ==
    /\ overflowChecks \in BOOLEAN
    /\ engineFault \in BOOLEAN
    /\ path \in Paths
    /\ last = NoOp
    /\ srcText = <<>>
    /\ engineChecks = TRUE
    /\ wrappers = NoWrappers
    /\ engine = NoOpaque

GetNameCount ==
    /\ last = NoOp
    /\ last' = [op |-> "get_name_count",
                count |-> InnerGetNameCount(path, engineFault),
                out |-> get_name_count(path, engineFault)]
    /\ UNCHANGED <<overflowChecks, engineFault, path, srcText, engineChecks,
                     wrappers, engine>>

GetSubnameCount ==
    /\ last = NoOp
    /\ last' = [op |-> "get_subname_count",
                count |-> InnerGetSubnameCount(path, engineFault),
                out |-> get_subname_count(path, engineFault)]
    /\ UNCHANGED <<overflowChecks, engineFault, path, srcText, engineChecks,
                     wrappers, engine>>

GetName ==
    \E idx \in Indices :
        /\ last = NoOp
        /\ last' = [op |-> "get_name", idx |-> idx,
                    count |-> InnerGetNameCount(path, engineFault),
                    out |-> get_name(path, idx, engineFault)]
        /\ UNCHANGED <<overflowChecks, engineFault, path, srcText, engineChecks,
                     wrappers, engine>>

GetSubname ==
    \E idx \in Indices :
        /\ last = NoOp
        /\ last' = [op |-> "get_subname", idx |-> idx,
                    count |-> InnerGetSubnameCount(path, engineFault),
                    out |-> get_subname(path, idx, engineFault)]
        /\ UNCHANGED <<overflowChecks, engineFault, path, srcText, engineChecks,
                     wrappers, engine>>

Slice ==
    \E range \in Ranges :
        /\ last = NoOp
        /\ last' = [op |-> "slice", range |-> range,
                    out |-> slice(path, range, overflowChecks)]
        /\ UNCHANGED <<overflowChecks, engineFault, path, srcText, engineChecks,
                     wrappers, engine>>

\* the caller takes the result; the path is ready for its next call
TakeResult ==
    /\ last # NoOp
    /\ last' = NoOp
    /\ UNCHANGED <<overflowChecks, engineFault, path, srcText, engineChecks,
                     wrappers, engine>>

PathNext ==
    GetNameCount \/ GetSubnameCount \/ GetName \/ GetSubname \/ Slice
        \/ TakeResult

Spec == PathInit /\ [][PathNext]_vars

\* ------------------------------------------------------------------------
\* Host text and the string conversions

\* the characters of the host texts tried; "NUL" is the terminator byte
Chars == {"x", "y", "/", ":", "NUL"}

Texts == SeqUpTo(Chars, MaxTextLen)

\* GString::from(&str): the engine's string stops at the first NUL
RECURSIVE GStringFrom(_)
GStringFrom(s) ==
    IF s = <<>> \/ Head(s) = "NUL" THEN <<>>
    ELSE <<Head(s)>> \o GStringFrom(Tail(s))

\* the first position of d in s, 0 when s holds no d
IndexOf(s, d) ==
    IF \E i \in 1..Len(s) : s[i] = d
    THEN CHOOSE i \in 1..Len(s) : s[i] = d /\ \A j \in 1..(i - 1) : s[j] # d
    ELSE 0

\* the pieces of s between the delimiters d
RECURSIVE SplitAt(_, _)
SplitAt(s, d) ==
    LET i == IndexOf(s, d)
    IN  IF i = 0 THEN <<s>>
        ELSE <<SubSeq(s, 1, i - 1)>> \o SplitAt(SubSeq(s, i + 1, Len(s)), d)

\* the pieces with d between them
RECURSIVE JoinWith(_, _)
JoinWith(ss, d) ==
    IF ss = <<>> THEN <<>>
    ELSE IF Len(ss) = 1 THEN ss[1]
    ELSE ss[1] \o <<d>> \o JoinWith(Tail(ss), d)

\* node_path_from_string: the engine parses the canonical string into name
\* components ('/'-separated) followed by subname components (':'-separated)
NodePathFromString(g) ==
    LET abs == g # <<>> /\ g[1] = "/"
        body == IF abs THEN Tail(g) ELSE g
        colon == IndexOf(body, ":")
        namePart == IF colon = 0 THEN body ELSE SubSeq(body, 1, colon - 1)
        subPart == SubSeq(body, colon + 1, Len(body))
    IN  [absolute |-> abs,
         names |-> IF namePart = <<>> THEN <<>> ELSE SplitAt(namePart, "/"),
         subnames |-> IF colon = 0 THEN <<>> ELSE SplitAt(subPart, ":")]

\* GString::from(&NodePath): the engine renders the path as its text
GStringFromNodePath(p) ==
    (IF p.absolute THEN <<"/">> ELSE <<>>)
        \o JoinWith(p.names, "/")
        \o (IF p.subnames = <<>> THEN <<>> ELSE <<":">> \o JoinWith(p.subnames, ":"))

\* a path made from the raw text, not through GString
From_str_reinterpreted(s) == NodePathFromString(s)

\* From<&str>, From<String>, From<&String>: GString::from(s).into()
From_str(s) == NodePathFromString(GStringFrom(s))

\* Display writing the literal syntax of Debug
Display_as_debug(p) == <<"^", "\"">> \o GStringFromNodePath(p) \o <<"\"">>

\* Display: the text of GString::from(self)
Display(p) == GStringFromNodePath(p)

\* Debug: ^"text"
Debug(p) == <<"^", "\"">> \o GStringFromNodePath(p) \o <<"\"">>

\* node_path_operator_equal: the engine compares the parsed data
InnerEqual(p, q) == p = q

CharCode(c) ==
    CASE c = "x" -> 120 [] c = "y" -> 121 [] c = "/" -> 47 [] c = ":" -> 58
      [] OTHER -> 0

RECURSIVE TextHash(_, _)
TextHash(s, h) ==
    IF s = <<>> THEN h
    ELSE TextHash(Tail(s), (h * 33 + CharCode(Head(s))) % (2^20))

\* the engine's hash of the parsed data, an i64 in the range of u32
InnerHash(p) == I64Of(TextHash(GStringFromNodePath(p), 5381))

\* hash(): the engine's hash narrowed to u32
hash(p) == ExpectU32(InnerHash(p), "Godot hashes are uint32_t")

\* ------------------------------------------------------------------------
\* Constructing, rendering and comparing paths

TextInit ==
    /\ overflowChecks = FALSE
    /\ engineFault = FALSE
    /\ path = EmptyPath
    /\ last = NoOp
    /\ srcText = <<>>
    /\ engineChecks = TRUE
    /\ wrappers = NoWrappers
    /\ engine = NoOpaque

FromStr ==
    \E t \in Texts :
        /\ last = NoOp
        /\ path' = From_str(t)
        /\ srcText' = t
        /\ UNCHANGED <<overflowChecks, engineFault, last, engineChecks,
                     wrappers, engine>>

Fmt ==
    /\ last = NoOp
    /\ last' = [op |-> "display", out |-> Display(path), debug |-> Debug(path)]
    /\ UNCHANGED <<overflowChecks, engineFault, path, srcText, engineChecks,
                     wrappers, engine>>

\* `path == other` and the two hashes, for a second path made from text t
Compare ==
    \E t \in Texts :
        /\ last = NoOp
        /\ last' = [op |-> "compare", other |-> t,
                    equal |-> InnerEqual(path, From_str(t)),
                    hash |-> hash(path), otherHash |-> hash(From_str(t))]
        /\ UNCHANGED <<overflowChecks, engineFault, path, srcText, engineChecks,
                     wrappers, engine>>

TextNext == FromStr \/ Fmt \/ Compare \/ TakeResult

TextSpec == TextInit /\ [][TextNext]_vars

\* ------------------------------------------------------------------------
\* Dynamic calls: Object::call and Object::try_call

\* a value is kept as its type tag and its debug text
IntV(n) == [type |-> "INT", val |-> n]

StrV(t) == [type |-> "STRING", val |-> t]

Nil == [type |-> "NIL", val |-> "null"]

\* the argument values of the tests
Variants == {IntV("42"), IntV("43"), StrV("string"), Nil}

ArgLists == SeqUpTo(Variants, MaxArgs)

Receivers == {"ObjPayload", "Node"}

MethodNames ==
    {"take_1_int", "do_panic", "rpc_config", "set_name", "get_instance_id",
     "no_such_method"}

NoMethod == [found |-> FALSE]

\* The receiver's method table.  A host method (#[func]) names the Rust
\* type of each parameter; an engine method is checked by the engine.
Lookup(recv, m) ==
    CASE recv = "ObjPayload" /\ m = "take_1_int" ->
            [found |-> TRUE, host |-> TRUE, class |-> "ObjPayload",
             params |-> <<[type |-> "INT", rust |-> "i64"]>>, body |-> "echo"]
      [] recv = "ObjPayload" /\ m = "do_panic" ->
            [found |-> TRUE, host |-> TRUE, class |-> "ObjPayload",
             params |-> <<>>, body |-> "panic"]
      [] recv = "Node" /\ m = "rpc_config" ->
            [found |-> TRUE, host |-> FALSE, class |-> "Node",
             params |-> <<[type |-> "STRING"], [type |-> "VARIANT"]>>,
             body |-> "nil"]
      [] recv = "Node" /\ m = "set_name" ->
            [found |-> TRUE, host |-> FALSE, class |-> "Node",
             params |-> <<[type |-> "STRING"]>>, body |-> "nil"]
      [] m = "get_instance_id" ->
            [found |-> TRUE, host |-> FALSE, class |-> "Object",
             params |-> <<>>, body |-> "id"]
      [] OTHER -> NoMethod

\* from_dynamic: whether the value converts to the parameter's type
FromDynamicOk(v, type) == type = "VARIANT" \/ v.type = type

\* The conversions in parameter order from position i: the position of the
\* first one that fails (0 when none does)
RECURSIVE FirstFailure(_, _, _)
FirstFailure(args, params, i) ==
    IF i > Len(params) THEN 0
    ELSE IF ~FromDynamicOk(args[i], params[i].type) THEN i
    ELSE FirstFailure(args, params, i + 1)

\* the outer call every error names: Object::call(&"method", args...)
OuterCall(m, args) ==
    [class |-> "Object", method |-> "call", name |-> m, args |-> args]

\* the value the target returns
Invoke(sig, args) ==
    CASE sig.body = "echo" -> args[1]
      [] sig.body = "id" -> IntV("1")
      [] OTHER -> Nil

DoPanicInfo ==
    [kind |-> "panic", msg |-> "do_panic exploded",
     file |-> "itest/rust/src/object_tests/object_test.rs", line |-> "line"]

CallOk(v, invoked, converted) ==
    [tag |-> "Ok", val |-> v, invoked |-> invoked, converted |-> converted]

\* a failed call: the chain of errors, the outer call first
CallErr(chain, invoked, converted) ==
    [tag |-> "Err", err |-> chain, invoked |-> invoked, converted |-> converted]

\* the target's own level of the chain
Origin(sig, m) == [class |-> sig.class, method |-> m]

\* "function has n parameter(s), but received k argument(s)"
ArityError(sig, m, args) ==
    CallErr(<<OuterCall(m, args),
              Origin(sig, m) @@ [reason |-> [kind |-> "arity",
                                             declared |-> Len(sig.params),
                                             received |-> Len(args)]]>>,
            <<>>, 0)

\* the parameter error counting parameters from 1
ParameterError_one_based(sig, m, args, bad) ==
    CallErr(<<OuterCall(m, args),
              Origin(sig, m) @@ [reason |-> [kind |-> "parameter", index |-> bad,
                                             rust |-> sig.params[bad].rust]],
              [reason |-> [kind |-> "convert", expected |-> sig.params[bad].type,
                           actual |-> args[bad].type, value |-> args[bad]]]>>,
            <<>>, bad)

\* "parameter #i (T) conversion", its source "expected type E, got A: value";
\* bad is the position (from 1) of the argument that failed to convert
ParameterError(sig, m, args, bad) ==
    CallErr(<<OuterCall(m, args),
              Origin(sig, m) @@ [reason |-> [kind |-> "parameter", index |-> bad - 1,
                                             rust |-> sig.params[bad].rust]],
              [reason |-> [kind |-> "convert", expected |-> sig.params[bad].type,
                           actual |-> args[bad].type, value |-> args[bad]]]>>,
            <<>>, bad)

\* the target's panic left to unwind through try_call
PanicError_unwinds(sig, m, args) ==
    [tag |-> "Panic", msg |-> <<DoPanicInfo>>, invoked |-> <<m>>,
     converted |-> Len(sig.params)]

\* "[panic] message, at file:line": the target's panic, caught at the boundary
PanicError(sig, m, args) ==
    CallErr(<<OuterCall(m, args), Origin(sig, m) @@ [reason |-> DoPanicInfo]>>,
            <<m>>, Len(sig.params))

\* a host call that converts the arguments before it counts them
HostCall_converts_first(sig, m, args) ==
    LET n == Min2(Len(args), Len(sig.params))
        bad == FirstFailure(SubSeq(args, 1, n), SubSeq(sig.params, 1, n), 1)
    IN  IF bad # 0 THEN ParameterError(sig, m, args, bad)
        ELSE IF Len(args) # Len(sig.params) THEN ArityError(sig, m, args)
        ELSE IF sig.body = "panic" THEN PanicError(sig, m, args)
        ELSE CallOk(Invoke(sig, args), <<m>>, Len(sig.params))

\* a call to a host method: arity, then the conversions, then the target
HostCall(sig, m, args) ==
    LET bad == FirstFailure(args, sig.params, 1)
    IN  IF Len(args) # Len(sig.params) THEN ArityError(sig, m, args)
        ELSE IF bad # 0 THEN ParameterError(sig, m, args, bad)
        ELSE IF sig.body = "panic" THEN PanicError(sig, m, args)
        ELSE CallOk(Invoke(sig, args), <<m>>, Len(sig.params))

\* a call to an engine method: the engine's own checks, when it makes them
EngineCall(sig, m, args, checks) ==
    LET n == Len(sig.params)
        k == Len(args)
        bad == IF k = n THEN FirstFailure(args, sig.params, 1) ELSE 0
        top == OuterCall(m, args)
    IN  IF checks /\ k # n
        THEN CallErr(<<top @@ [reason |-> [kind |-> "arity", declared |-> n,
                                           received |-> k]]>>, <<>>, 0)
        ELSE IF checks /\ bad # 0
        THEN CallErr(<<top @@ [reason |-> [kind |-> "engine_parameter",
                                           number |-> bad,
                                           expected |-> sig.params[bad].type,
                                           actual |-> args[bad].type]]>>,
                     <<>>, bad)
        ELSE CallOk(IF k = n /\ bad = 0 THEN Invoke(sig, args) ELSE Nil, <<m>>, 0)

\* try_call: look the method up, then dispatch
try_call(recv, m, args, checks) ==
    LET sig == Lookup(recv, m)
    IN  IF ~sig.found
        THEN CallErr(<<OuterCall(m, args)
                         @@ [reason |-> [kind |-> "not_found", class |-> recv]]>>,
                     <<>>, 0)
        ELSE IF sig.host THEN HostCall(sig, m, args)
        ELSE EngineCall(sig, m, args, checks)

\* the rendering of an error: the preamble and the outer call, then one
\* Source and Reason line per level, the innermost cause last
RECURSIVE RenderLevels(_, _)
RenderLevels(chain, i) ==
    IF i > Len(chain) THEN <<>>
    ELSE (IF i > 1 /\ "class" \in DOMAIN chain[i]
          THEN <<[line |-> "Source", class |-> chain[i].class,
                  method |-> chain[i].method]>>
          ELSE <<>>)
         \o (IF "reason" \in DOMAIN chain[i]
             THEN <<[line |-> IF "class" \in DOMAIN chain[i] THEN "Reason"
                              ELSE "Source",
                     text |-> chain[i].reason]>>
             ELSE <<>>)
         \o RenderLevels(chain, i + 1)

Render(chain) ==
    <<[line |-> "godot-rust function call failed", class |-> chain[1].class,
       method |-> chain[1].method, name |-> chain[1].name,
       args |-> chain[1].args]>> \o RenderLevels(chain, 1)

\* call panicking with the first line of the error only
call_drops_chain(recv, m, args, checks) ==
    LET r == try_call(recv, m, args, checks)
    IN  IF r.tag = "Err"
        THEN [tag |-> "Panic", msg |-> <<Render(r.err)[1]>>, invoked |-> r.invoked,
              converted |-> r.converted]
        ELSE r

\* call: try_call(..).unwrap_or_else(|e| panic!("{e}"))
call(recv, m, args, checks) ==
    LET r == try_call(recv, m, args, checks)
    IN  IF r.tag = "Err"
        THEN [tag |-> "Panic", msg |-> Render(r.err), invoked |-> r.invoked,
              converted |-> r.converted]
        ELSE r

CallInit ==
    /\ overflowChecks = FALSE
    /\ engineFault = FALSE
    /\ path = EmptyPath
    /\ last = NoOp
    /\ srcText = <<>>
    /\ engineChecks \in BOOLEAN
    /\ wrappers = NoWrappers
    /\ engine = NoOpaque

TryCall ==
    \E recv \in Receivers, m \in MethodNames, args \in ArgLists :
        /\ last = NoOp
        /\ last' = [op |-> "try_call", recv |-> recv, method |-> m, args |-> args,
                    out |-> try_call(recv, m, args, engineChecks)]
        /\ UNCHANGED <<overflowChecks, engineFault, path, srcText, engineChecks,
                     wrappers, engine>>

Call ==
    \E recv \in Receivers, m \in MethodNames, args \in ArgLists :
        /\ last = NoOp
        /\ last' = [op |-> "call", recv |-> recv, method |-> m, args |-> args,
                    out |-> call(recv, m, args, engineChecks)]
        /\ UNCHANGED <<overflowChecks, engineFault, path, srcText, engineChecks,
                     wrappers, engine>>

CallNext == TryCall \/ Call \/ TakeResult

CallSpec == CallInit /\ [][CallNext]_vars

\* ------------------------------------------------------------------------
\* NodePath as the owner of one opaque value: construct, copy, read, drop

\* the next piece of memory the host sets aside for an opaque value
HasFresh(e) == \E id \in OpaqueIds : e[id].state = "unallocated"

Fresh(e) ==
    CHOOSE id \in OpaqueIds :
        /\ e[id].state = "unallocated"
        /\ \A other \in OpaqueIds : e[other].state = "unallocated" => id <= other

\* new_with_uninit: uninitialized memory, handed to the closure that fills it
Uninit(e, id) == [e EXCEPT ![id].state = "uninit"]

Held(w, slot) == w[slot] # 0

\* Default => node_path_construct_default
NodePath_default(w, e, slot) ==
    LET id == Fresh(e) IN
    [wrappers |-> [w EXCEPT ![slot] = id],
     engine |-> EngineConstruct(Uninit(e, id), id, "default")]

\* From<&GString> with the constructor call left out of the closure
From_GString_no_ctor(w, e, slot) ==
    LET id == Fresh(e) IN
    [wrappers |-> [w EXCEPT ![slot] = id],
     engine |-> Uninit(e, id)]

\* From<&GString>: new_with_uninit, then node_path_from_string on self_ptr
From_GString(w, e, slot) ==
    LET id == Fresh(e) IN
    [wrappers |-> [w EXCEPT ![slot] = id],
     engine |-> EngineConstruct(Uninit(e, id), id, "from_string")]

\* Clone => node_path_construct_copy
NodePath_clone(w, e, src, dst) ==
    LET id == Fresh(e) IN
    [wrappers |-> [w EXCEPT ![dst] = id],
     engine |-> EngineCopy(Uninit(e, id), id, w[src])]

\* Eq => node_path_operator_equal
NodePath_eq(w, e, a, b) ==
    [wrappers |-> w, engine |-> EngineRead(EngineRead(e, w[a]), w[b])]

\* hash(), and Hash: one engine call on the value
NodePath_hash(w, e, slot) ==
    [wrappers |-> w, engine |-> EngineRead(e, w[slot])]

\* get_name_count() and the other accessors: engine calls through as_inner()
NodePath_accessor(w, e, slot) ==
    [wrappers |-> w, engine |-> EngineRead(e, w[slot])]

\* Drop => node_path_destroy; the variable is gone afterwards
NodePath_drop(w, e, slot) ==
    [wrappers |-> [w EXCEPT ![slot] = 0],
     engine |-> EngineDestroy(e, w[slot])]

LifeInit ==
    /\ overflowChecks = FALSE
    /\ engineFault = FALSE
    /\ path = EmptyPath
    /\ last = NoOp
    /\ srcText = <<>>
    /\ engineChecks = TRUE
    /\ wrappers = NoWrappers
    /\ engine = NoOpaque

LifeStep(r, op) ==
    /\ wrappers' = r.wrappers
    /\ engine' = r.engine
    /\ last' = op
    /\ UNCHANGED <<overflowChecks, engineFault, path, srcText, engineChecks>>

ConstructDefault ==
    \E slot \in Slots :
        /\ ~Held(wrappers, slot)
        /\ HasFresh(engine)
        /\ LifeStep(NodePath_default(wrappers, engine, slot),
                    [op |-> "default", slot |-> slot, other |-> slot])

ConstructFromString ==
    \E slot \in Slots :
        /\ ~Held(wrappers, slot)
        /\ HasFresh(engine)
        /\ LifeStep(From_GString(wrappers, engine, slot),
                    [op |-> "from_string", slot |-> slot, other |-> slot])

CloneValue ==
    \E src \in Slots, dst \in Slots :
        /\ Held(wrappers, src)
        /\ ~Held(wrappers, dst)
        /\ HasFresh(engine)
        /\ LifeStep(NodePath_clone(wrappers, engine, src, dst),
                    [op |-> "clone", slot |-> dst, other |-> src])

Equals ==
    \E a \in Slots, b \in Slots :
        /\ Held(wrappers, a)
        /\ Held(wrappers, b)
        /\ LifeStep(NodePath_eq(wrappers, engine, a, b),
                    [op |-> "eq", slot |-> a, other |-> b])

HashValue ==
    \E slot \in Slots :
        /\ Held(wrappers, slot)
        /\ LifeStep(NodePath_hash(wrappers, engine, slot),
                    [op |-> "hash", slot |-> slot, other |-> slot])

Accessor ==
    \E slot \in Slots :
        /\ Held(wrappers, slot)
        /\ LifeStep(NodePath_accessor(wrappers, engine, slot),
                    [op |-> "accessor", slot |-> slot, other |-> slot])

DropValue ==
    \E slot \in Slots :
        /\ Held(wrappers, slot)
        /\ LifeStep(NodePath_drop(wrappers, engine, slot),
                    [op |-> "drop", slot |-> slot, other |-> slot])

LifeNext ==
    \/ ConstructDefault
    \/ ConstructFromString
    \/ CloneValue
    \/ Equals
    \/ HashValue
    \/ Accessor
    \/ DropValue

LifeSpec == LifeInit /\ [][LifeNext]_vars

\* ------------------------------------------------------------------------
\* Properties of the accessors and of slice

\* the small i64 x as an integer
SmallInt(x) == IF x[1] = 0 THEN x[3] ELSE x[3] - Limb

\* idx is below the count the engine reported
BelowCount(idx, count) ==
    idx[1] = 0 /\ idx[2] = 0 /\ idx[3] < SmallInt(count)

\* y = x + 1 as integers (no y is the successor of i64::MAX)
IsNext(x, y) ==
    \/ y[1] = x[1] /\ y[2] = x[2] /\ y[3] = x[3] + 1
    \/ y[1] = x[1] /\ y[2] = x[2] + 1 /\ x[3] = Limb - 1 /\ y[3] = 0
    \/ y[1] = x[1] + 1 /\ x[2] = Limb - 1 /\ y[2] = 0 /\ x[3] = Limb - 1 /\ y[3] = 0

\* C1: get_name(i) is None exactly when i >= the engine's name count, and
\* is otherwise the engine's name component at index i; the same for
\* get_subname(i) and the subname count.  No index gives an error.
C1_IndexBounds ==
    /\ last.op = "get_name" =>
          IF BelowCount(last.idx, last.count)
          THEN last.out = Some(path.names[last.idx[3] + 1])
          ELSE last.out = None
    /\ last.op = "get_subname" =>
          IF BelowCount(last.idx, last.count)
          THEN last.out = Some(path.subnames[last.idx[3] + 1])
          ELSE last.out = None

\* C1's case: the index equal to the count of a two-name path is absent
C1_Witness ==
    /\ last.op = "get_name"
    /\ Len(path.names) = 2
    /\ ~engineFault
    /\ last.idx = I64Of(2)
    /\ last.out = None

\* the (begin, end) pair the claim C2 states for a range
ClaimedBegin(start, begin) ==
    CASE start.kind = "Unbounded" -> begin = I64Of(0)
      [] start.kind = "Included" -> begin = start.val
      [] start.kind = "Excluded" ->
            IF start.val = I64Of(-1) THEN begin = I64Of(I32_MAX)
            ELSE IsNext(start.val, begin)

ClaimedEnd(end, e) ==
    CASE end.kind = "Excluded" -> e = end.val
      [] end.kind = "Included" ->
            IF end.val = I64Of(-1) THEN e = I64Of(I32_MAX)
            ELSE IsNext(end.val, e)
      [] end.kind = "Unbounded" -> e = I64Of(I32_MAX)

\* C2: for every combination of start and end bound, slice passes the
\* engine the pair (begin, end) with begin = 0 / start / start+1 / i32::MAX
\* and end = end / end+1 / i32::MAX as the claim lists them.
C2_SliceMapping ==
    last.op = "slice" =>
        /\ last.out.tag = "Ok"
        /\ ClaimedBegin(last.range.start, last.out.begin)
        /\ ClaimedEnd(last.range.end, last.out.end)

\* C2 away from i64::MAX: where no `+ 1` overflows, the pair is the claimed one
C2_SliceMappingBelowMax ==
    (/\ last.op = "slice"
     /\ last.range.start # Excluded(I64_MAX)
     /\ last.range.end # Included(I64_MAX)) =>
        /\ last.out.tag = "Ok"
        /\ ClaimedBegin(last.range.start, last.out.begin)
        /\ ClaimedEnd(last.range.end, last.out.end)

\* C3: slice(..=-1) yields a path equal to p, and slice(k..) for
\* 0 <= k <= name count yields the components of p from index k to the end
\* in their order.
C3_SliceThroughLast ==
    last.op = "slice" =>
        /\ last.range = [start |-> Unbounded, end |-> Included(I64Of(-1))] =>
              last.out.tag = "Ok" /\ last.out.val = path
        /\ \A k \in 0..Len(path.names) :
              last.range = [start |-> Included(I64Of(k)), end |-> Unbounded] =>
                  /\ last.out.tag = "Ok"
                  /\ last.out.val.names = SubSeq(path.names, k + 1, Len(path.names))
                  /\ last.out.val.subnames = path.subnames

\* C3's case: slice(..=-1) of a path with three names and a subname
C3_Witness ==
    /\ last.op = "slice"
    /\ last.range = [start |-> Unbounded, end |-> Included(I64Of(-1))]
    /\ path.names = <<"a", "b", "a">>
    /\ path.subnames = <<"b">>
    /\ last.out.tag = "Ok"
    /\ last.out.val = path

\* C10: whenever the engine reports a negative count, the operation that
\* observes it (get_name_count, get_subname_count, get_name, get_subname)
\* aborts instead of returning a value.
C10_NegativeCountAborts ==
    (/\ last.op \in {"get_name_count", "get_subname_count", "get_name", "get_subname"}
     /\ I64Lt(last.count, I64Of(0))) =>
        last.out.tag = "Panic"

\* C10 for the two counts alone, which narrow the count with expect()
C10_CountsAbort ==
    (/\ last.op \in {"get_name_count", "get_subname_count"}
     /\ I64Lt(last.count, I64Of(0))) =>
        last.out.tag = "Panic"

\* ------------------------------------------------------------------------
\* Properties of the text conversions

\* t up to, not including, its first NUL
UpToNul(t) ==
    IF \E i \in 1..Len(t) : t[i] = "NUL"
    THEN SubSeq(t, 1, (CHOOSE i \in 1..Len(t) :
                          t[i] = "NUL" /\ \A j \in 1..(i - 1) : t[j] # "NUL") - 1)
    ELSE t

C5_EqHash ==
    last.op = "compare" =>
        /\ UpToNul(srcText) = UpToNul(last.other) =>
              /\ last.equal
              /\ last.hash.tag = "Ok"
              /\ last.hash = last.otherHash
        /\ last.equal => last.hash = last.otherHash

\* C5's case: x and x NUL y
C5_Witness ==
    /\ last.op = "compare"
    /\ srcText = <<"x">>
    /\ last.other = <<"x", "NUL", "y">>
    /\ last.equal
    /\ last.hash = last.otherHash

\* ------------------------------------------------------------------------
\* Properties of the dynamic calls

\* the signature the last dynamic call resolved
LastSig == Lookup(last.recv, last.method)

Innermost(chain) == chain[Len(chain)]

C7_Arity ==
    (/\ last.op = "try_call"
     /\ LastSig.found
     /\ LastSig.host
     /\ Len(last.args) # Len(LastSig.params)) =>
        /\ last.out.tag = "Err"
        /\ Innermost(last.out.err).reason =
              [kind |-> "arity", declared |-> Len(LastSig.params),
               received |-> Len(last.args)]
        /\ last.out.converted = 0
        /\ last.out.invoked = <<>>

\* C7's case: take_1_int("string", 42): too many arguments, the first of
\* them of the wrong type
C7_Witness ==
    /\ last.op = "try_call"
    /\ last.recv = "ObjPayload"
    /\ last.method = "take_1_int"
    /\ last.args = <<StrV("string"), IntV("42")>>
    /\ last.out.tag = "Err"
    /\ Innermost(last.out.err).reason.kind = "arity"

\* the type check fails: the count matches and a conversion fails
TypeCheckFails ==
    /\ last.op = "try_call"
    /\ LastSig.found
    /\ Len(last.args) = Len(LastSig.params)
    /\ \E i \in 1..Len(last.args) :
          ~FromDynamicOk(last.args[i], LastSig.params[i].type)

\* the position (from 1) of the first argument that does not convert
FirstBad ==
    CHOOSE i \in 1..Len(last.args) :
        /\ ~FromDynamicOk(last.args[i], LastSig.params[i].type)
        /\ \A j \in 1..(i - 1) : FromDynamicOk(last.args[j], LastSig.params[j].type)

\* the error C8 describes: the zero-based index of the parameter, and a
\* chain ending in "expected type E, got A" with the value
NamesParameterAndValue ==
    /\ last.out.tag = "Err"
    /\ last.out.invoked = <<>>
    /\ \E l \in 1..Len(last.out.err) :
          /\ "reason" \in DOMAIN last.out.err[l]
          /\ last.out.err[l].reason.kind = "parameter"
          /\ last.out.err[l].reason.index = FirstBad - 1
    /\ Innermost(last.out.err).reason =
          [kind |-> "convert", expected |-> LastSig.params[FirstBad].type,
           actual |-> last.args[FirstBad].type, value |-> last.args[FirstBad]]

C9_ExecutionFault ==
    (/\ last.op = "try_call"
     /\ LastSig.found
     /\ LastSig.host
     /\ LastSig.body = "panic"
     /\ Len(last.args) = Len(LastSig.params)) =>
        /\ last.out.tag = "Err"
        /\ last.out.invoked = <<last.method>>
        /\ last.out.err[1].class = "Object"
        /\ last.out.err[1].method = "call"
        /\ Len(last.out.err) = 2
        /\ last.out.err[2].class = LastSig.class
        /\ last.out.err[2].method = last.method
        /\ last.out.err[2].reason.kind = "panic"
        /\ last.out.err[2].reason.msg = "do_panic exploded"
        /\ {"file", "line"} \subseteq DOMAIN last.out.err[2].reason

\* C9's case: try_call("do_panic", [])
C9_Witness ==
    /\ last.op = "try_call"
    /\ last.recv = "ObjPayload"
    /\ last.method = "do_panic"
    /\ last.args = <<>>
    /\ last.out.tag = "Err"
    /\ last.out.invoked = <<"do_panic">>

\* ------------------------------------------------------------------------
\* Totality of slice

\* C12: for every start and end bound over the whole range of i64, slice
\* computes begin and end without overflow and reaches the engine call with
\* that pair.
C12_SliceTotal ==
    last.op = "slice" =>
        /\ ~SliceBegin(last.range.start).ovf
        /\ ~SliceEnd(last.range.end).ovf
        /\ last.out.tag = "Ok"

\* C12 away from i64::MAX: no other bound overflows, and the engine is reached
C12_SliceTotalBelowMax ==
    (/\ last.op = "slice"
     /\ last.range.start # Excluded(I64_MAX)
     /\ last.range.end # Included(I64_MAX)) =>
        /\ ~SliceBegin(last.range.start).ovf
        /\ ~SliceEnd(last.range.end).ovf
        /\ last.out.tag = "Ok"


\* ------------------------------------------------------------------------
\* Lifecycle of opaque values

OwnedBy(id) == {slot \in Slots : wrappers[slot] = id}

\* C11: every opaque value is constructed by the engine before any engine
\* function reads it, is destroyed exactly once and never used afterwards, and
\* every copy comes from the engine's copy constructor applied to a live source.
C11_Lifecycle ==
    \A id \in OpaqueIds :
        /\ ~engine[id].misused
        /\ engine[id].state # "uninit"
        /\ engine[id].destroys <= 1
        /\ engine[id].state = "destroyed" <=> engine[id].destroys = 1
        /\ engine[id].state = "live" <=> Cardinality(OwnedBy(id)) = 1
        /\ engine[id].state # "live" => OwnedBy(id) = {}
        /\ engine[id].state \in {"live", "destroyed"} =>
               engine[id].ctor \in {"default", "from_string", "copy"}
        /\ engine[id].srcLive

\* a value was copied, and both the source and the copy have been dropped
C11_Witness ==
    /\ last.op = "drop"
    /\ \E src \in OpaqueIds, copy \in OpaqueIds :
        /\ src # copy
        /\ engine[src].ctor = "from_string"
        /\ engine[copy].ctor = "copy"
        /\ engine[src].destroys = 1
        /\ engine[copy].destroys = 1

====
